---- MODULE Spec2Model ----
(***************************************************************************)
(* Authentication core of integrated-site: AuthService (register, login,   *)
(* token validation, refresh) over the auth.users table and the jwt-go     *)
(* token codec.  Time is counted in ticks, TicksPerSec ticks to a second;  *)
(* time.Time values are ticks, Unix() values are whole seconds.            *)
(***************************************************************************)
EXTENDS Integers, FiniteSets, Sequences, TLC

\* ---------------------------------------------------------------- bounds
MaxUsers == 2
MaxTime == 6
MaxTokens == 4
TicksPerSec == 2

\* ---------------------------------------------------------------- inputs
Emails == {"a@x.com", "b@x.com"}
Passwords == {"secret1", "abc"}
RoleInputs == {"admin", "customer", "guest"}
Procs == {"p1", "p2"}
Advance == {0, 1}

\* values of auth.token_expiry and auth.refresh_token_expiry: unset (not a
\* duration), positive, below one second, zero and negative
Configs ==
    {[token_expiry |-> "", refresh_token_expiry |-> ""],
     [token_expiry |-> "500ms", refresh_token_expiry |-> "0s"],
     [token_expiry |-> "0s", refresh_token_expiry |-> "-1s"],
     [token_expiry |-> "-1s", refresh_token_expiry |-> "500ms"]}

\* the wall clock at start-up, far from the epoch compared with any lifetime
StartTime == 2 * TicksPerSec

\* ------------------------------------------------------------ error values
NoErr == "nil"
ErrInvalidCredentials == "invalid credentials"
ErrUserAlreadyExists == "user already exists"
ErrInvalidToken == "invalid token"
JwtValidationError == "jwt.ValidationError"
StoreError == "pgx: i/o error"
UniqueViolation == "pg: unique_violation"
CheckViolation == "pg: check_violation"
ErrNoRows == "pgx.ErrNoRows"
Panic == "panic: interface conversion"

\* ------------------------------------------------------------------ state
VARIABLES users, nextID, now, cfg, issued, reg, last

vars == <<users, nextID, now, cfg, issued, reg, last>>

\* ------------------------------------------------------------- time values
Unix(t) == t \div TicksPerSec

ParseDuration(s) ==
    CASE s = "1s" -> [ok |-> TRUE, d |-> TicksPerSec]
      [] s = "500ms" -> [ok |-> TRUE, d |-> TicksPerSec \div 2]
      [] s = "0s" -> [ok |-> TRUE, d |-> 0]
      [] s = "-1s" -> [ok |-> TRUE, d |-> 0 - TicksPerSec]
      [] OTHER -> [ok |-> FALSE, d |-> 0]

DefaultTokenExpiry == 24 * 3600 * TicksPerSec
DefaultRefreshExpiry == 7 * 24 * 3600 * TicksPerSec

\* ------------------------------------------------------------------- uuid
\* uuid.UUID values are 1..MaxUsers; String() gives the canonical form and
\* Parse accepts the canonical and the urn: form, nothing else.
UUIDString(id) == <<"canonical", id>>

UUIDParse(s) ==
    IF Len(s) = 2 /\ s[1] \in {"canonical", "urn"}
    THEN [ok |-> TRUE, id |-> s[2]]
    ELSE [ok |-> FALSE, id |-> 0]

\* ----------------------------------------------------------------- bcrypt
Salts == {1}

GenerateFromPassword(pw, salt) == [salt |-> salt, digest |-> <<salt, pw>>]

CompareHashAndPassword(hash, pw) == hash.digest = <<hash.salt, pw>>

\* ------------------------------------------------------------ token codec
JwtSecret == "secret"
AttackerKey == "attacker"
UnsafeAllowNoneSignatureType == "none signing method allowed"
ByteKeys == {JwtSecret, AttackerKey}

HMACMethods == {"HS256", "HS384", "HS512"}
RegisteredMethods == HMACMethods \cup {"RS256", "ES256", "none"}

\* the signature over header and payload, as the triple that determines it
Sign(alg, claims, key) ==
    IF alg = "none" THEN {} ELSE {[alg |-> alg, key |-> key, payload |-> claims]}

SignedString(alg, claims, key) ==
    [segs |-> 3, alg |-> alg, claims |-> claims, sig |-> Sign(alg, claims, key)]

\* SigningMethod.Verify of jwt-go: HMAC wants a []byte key, RSA/ECDSA a
\* public key, none the UnsafeAllowNoneSignatureType marker.
Verify(tok, key) ==
    CASE tok.alg \in HMACMethods ->
            key \in ByteKeys /\ tok.sig = Sign(tok.alg, tok.claims, key)
      [] tok.alg = "none" ->
            key = UnsafeAllowNoneSignatureType /\ tok.sig = {}
      [] OTHER -> FALSE

\* verifyExp of jwt-go: an exp of 0 counts as absent, and the boundary
\* second itself is still valid.
verifyExp(exp, nowSec) == IF exp = 0 THEN TRUE ELSE nowSec <= exp

MapClaimsValid(claims, nowSec) ==
    IF "exp" \in DOMAIN claims THEN verifyExp(claims.exp, nowSec) ELSE TRUE

\* a key function that lets the "none" method through
KeyFunc_AllowNone(alg) ==
    IF alg = "none" THEN [err |-> NoErr, key |-> UnsafeAllowNoneSignatureType]
    ELSE IF alg \notin HMACMethods THEN [err |-> ErrInvalidToken, key |-> ""]
    ELSE [err |-> NoErr, key |-> JwtSecret]

\* the key function ValidateToken hands to jwt.Parse
KeyFunc(alg) ==
    IF alg \notin HMACMethods
    THEN [err |-> ErrInvalidToken, key |-> ""]
    ELSE [err |-> NoErr, key |-> JwtSecret]

\* a parse that skips the validation of the claims (exp)
Parse_SkipClaimsValidation(tok, t) ==
    IF tok.segs # 3 THEN [err |-> JwtValidationError, valid |-> FALSE]
    ELSE IF tok.alg \notin RegisteredMethods
    THEN [err |-> JwtValidationError, valid |-> FALSE]
    ELSE LET k == KeyFunc(tok.alg) IN
         IF k.err # NoErr THEN [err |-> JwtValidationError, valid |-> FALSE]
         ELSE IF ~Verify(tok, k.key)
         THEN [err |-> JwtValidationError, valid |-> FALSE]
         ELSE [err |-> NoErr, valid |-> TRUE]

\* jwt.Parse: three segments, a registered method, the key function, the
\* claims' validity at the current time and the signature.
Parse(tok, t) ==
    IF tok.segs # 3 THEN [err |-> JwtValidationError, valid |-> FALSE]
    ELSE IF tok.alg \notin RegisteredMethods
    THEN [err |-> JwtValidationError, valid |-> FALSE]
    ELSE LET k == KeyFunc(tok.alg) IN
         IF k.err # NoErr THEN [err |-> JwtValidationError, valid |-> FALSE]
         ELSE IF ~MapClaimsValid(tok.claims, Unix(t))
         THEN [err |-> JwtValidationError, valid |-> FALSE]
         ELSE IF ~Verify(tok, k.key)
         THEN [err |-> JwtValidationError, valid |-> FALSE]
         ELSE [err |-> NoErr, valid |-> TRUE]

IsString(claims, k) == k \in DOMAIN claims

\* a validation that also looks the token's user up in the users table
ValidateToken_CheckUser(tok, t) ==
    LET p == Parse(tok, t) IN
    IF p.err # NoErr THEN [err |-> p.err, claims |-> {}]
    ELSE IF p.valid /\ IsString(tok.claims, "user_id") /\ UUIDParse(tok.claims.user_id).ok
            /\ \E u \in users : /\ u.id = UUIDParse(tok.claims.user_id).id
                                 /\ u.email = tok.claims.email
                                 /\ u.role = tok.claims.role
    THEN [err |-> NoErr,
          claims |-> {[UserID |-> UUIDParse(tok.claims.user_id).id,
                       Email |-> tok.claims.email,
                       Role |-> tok.claims.role]}]
    ELSE [err |-> ErrInvalidToken, claims |-> {}]

\* a validation that fills Email from the role claim
ValidateToken_RoleAsEmail(tok, t) ==
    LET p == Parse(tok, t) IN
    IF p.err # NoErr THEN [err |-> p.err, claims |-> {}]
    ELSE IF p.valid
    THEN IF ~IsString(tok.claims, "user_id") THEN [err |-> Panic, claims |-> {}]
         ELSE LET u == UUIDParse(tok.claims.user_id) IN
              IF ~u.ok THEN [err |-> ErrInvalidToken, claims |-> {}]
              ELSE IF ~IsString(tok.claims, "email") \/ ~IsString(tok.claims, "role")
              THEN [err |-> Panic, claims |-> {}]
              ELSE [err |-> NoErr,
                    claims |-> {[UserID |-> u.id,
                                 Email |-> tok.claims.role,
                                 Role |-> tok.claims.role]}]
    ELSE [err |-> ErrInvalidToken, claims |-> {}]

ValidateToken(tok, t) ==
    LET p == Parse(tok, t) IN
    IF p.err # NoErr THEN [err |-> p.err, claims |-> {}]
    ELSE IF p.valid
    THEN IF ~IsString(tok.claims, "user_id") THEN [err |-> Panic, claims |-> {}]
         ELSE LET u == UUIDParse(tok.claims.user_id) IN
              IF ~u.ok THEN [err |-> ErrInvalidToken, claims |-> {}]
              ELSE IF ~IsString(tok.claims, "email") \/ ~IsString(tok.claims, "role")
              THEN [err |-> Panic, claims |-> {}]
              ELSE [err |-> NoErr,
                    claims |-> {[UserID |-> u.id,
                                 Email |-> tok.claims.email,
                                 Role |-> tok.claims.role]}]
    ELSE [err |-> ErrInvalidToken, claims |-> {}]

generateToken(user, t) ==
    LET pd == ParseDuration(cfg.token_expiry)
        expiryDuration == IF pd.ok THEN pd.d ELSE DefaultTokenExpiry
        expiresAt == t + expiryDuration
        claims == [user_id |-> UUIDString(user.id),
                   email |-> user.email,
                   role |-> user.role,
                   exp |-> Unix(expiresAt),
                   issued_at |-> Unix(t)]
    IN [token |-> SignedString("HS256", claims, JwtSecret), expiresAt |-> expiresAt]

\* a refresh token generated without its is_refresh mark
generateRefreshToken_NoMark(user, t) ==
    LET pd == ParseDuration(cfg.refresh_token_expiry)
        expiryDuration == IF pd.ok THEN pd.d ELSE DefaultRefreshExpiry
        expiresAt == t + expiryDuration
        claims == [user_id |-> UUIDString(user.id),
                   email |-> user.email,
                   role |-> user.role,
                   exp |-> Unix(expiresAt),
                   issued_at |-> Unix(t)]
    IN [token |-> SignedString("HS256", claims, JwtSecret), expiresAt |-> expiresAt]

generateRefreshToken(user, t) ==
    LET pd == ParseDuration(cfg.refresh_token_expiry)
        expiryDuration == IF pd.ok THEN pd.d ELSE DefaultRefreshExpiry
        expiresAt == t + expiryDuration
        claims == [user_id |-> UUIDString(user.id),
                   email |-> user.email,
                   role |-> user.role,
                   exp |-> Unix(expiresAt),
                   issued_at |-> Unix(t),
                   is_refresh |-> TRUE]
    IN [token |-> SignedString("HS256", claims, JwtSecret), expiresAt |-> expiresAt]

\* ------------------------------------------------------- credential store
ValidRoles == {"admin", "customer", "contributor"}

GetByEmail(email) == {u \in users : u.email = email}

GetByID(id) == {u \in users : u.id = id}

\* ------------------------------------------------------------ the requests
RegisterRequests == [email : Emails, password : Passwords, role : RoleInputs]
LoginRequests == [email : Emails, password : Passwords]

\* what a client without the secret can present besides the issued tokens:
\* tokens signed with its own key under any header, issued tokens with the
\* payload, the header or the structure altered, and unsigned tokens
ForgedClaims ==
    [user_id |-> UUIDString(1), email |-> "a@x.com", role |-> "admin",
     exp |-> Unix(MaxTime) + 1, issued_at |-> Unix(StartTime), is_refresh |-> TRUE]

Forged(iss) ==
    {SignedString(a, ForgedClaims, AttackerKey) : a \in {"HS256", "RS256", "none", "XX"}}
    \cup {[t EXCEPT !.claims.role = "admin"] : t \in iss}
    \cup {[t EXCEPT !.alg = "none", !.sig = {}] : t \in iss}
    \cup {[t EXCEPT !.segs = 2] : t \in iss}

Presentable == issued \cup Forged(issued)

\* the record of the operation that completed last
Blank ==
    [op |-> "init", proc |-> "", email |-> "", password |-> "", role |-> "",
     id |-> 0, token |-> {}, err |-> NoErr, user |-> {}, access |-> {},
     refresh |-> {}, expiresAt |-> {}, claims |-> {}, at |-> 0,
     header |-> <<>>, chain |-> <<>>, status |-> 0, msg |-> "", ran |-> <<>>,
     identity |-> {}, called |-> 0, verr |-> {}, calls |-> <<>>,
     storeFailed |-> FALSE, method |-> "", path |-> ""]

Init ==
    /\ users = {}
    /\ nextID = 1
    /\ now = StartTime
    /\ cfg \in Configs
    /\ issued = {}
    /\ reg = [p \in Procs |-> {}]
    /\ last = Blank

\* ------------------------------------------------------------- store calls
\* a store call that is issued again after it failed, the second attempt
\* going through
storeCall_Retry(name, storeOK) ==
    [ok |-> TRUE, calls |-> IF storeOK THEN <<name>> ELSE <<name, name>>]

\* a call on the user repository as the service makes it: issued once, and
\* `if err != nil { return nil, err }` hands its failure straight back
storeCall(name, storeOK) ==
    [ok |-> storeOK, calls |-> <<name>>]

\* ------------------------------------------------------- AuthService.Register
\* a lookup whose result is not examined
registerLookupErr_NoCheck(existingUser, storeOK) ==
    IF ~storeOK THEN StoreError ELSE NoErr

\* the outcome of the lookup: the store's error, a duplicate, or go on
registerLookupErr(existingUser, storeOK) ==
    IF ~storeOK THEN StoreError
    ELSE IF existingUser # {} THEN ErrUserAlreadyExists
    ELSE NoErr

\* first half: the GetByEmail lookup (lines 32-38)
RegisterLookup(p, req, storeOK) ==
    /\ reg[p] = {}
    /\ nextID + Cardinality({q \in Procs : reg[q] # {}}) <= MaxUsers
    /\ LET sc == storeCall("GetByEmail", storeOK)
           r == [Blank EXCEPT !.op = "register", !.proc = p, !.email = req.email,
                              !.password = req.password, !.role = req.role,
                              !.calls = sc.calls, !.storeFailed = ~storeOK]
           err == registerLookupErr(GetByEmail(req.email), sc.ok)
       IN IF err # NoErr
          THEN /\ last' = [r EXCEPT !.err = err]
               /\ reg' = reg
          ELSE /\ last' = [r EXCEPT !.op = "register.lookup"]
               /\ reg' = [reg EXCEPT ![p] = {req}]
    /\ UNCHANGED <<users, nextID, now, cfg, issued>>

\* the INSERT into a table without the UNIQUE constraint on email
Create_NoUnique(user) ==
    IF user.role \notin ValidRoles THEN [err |-> CheckViolation, users |-> users]
    ELSE [err |-> NoErr, users |-> users \cup {user}]

\* the INSERT of UserRepository.Create under the constraints of auth.users
Create(user) ==
    IF user.role \notin ValidRoles THEN [err |-> CheckViolation, users |-> users]
    ELSE IF GetByEmail(user.email) # {} THEN [err |-> UniqueViolation, users |-> users]
    ELSE [err |-> NoErr, users |-> users \cup {user}]

\* second half: hash the password and insert (lines 40-59)
RegisterCreate(p, salt, storeOK) ==
    /\ reg[p] # {}
    /\ LET req == CHOOSE q \in reg[p] : TRUE
           sc == storeCall("Create", storeOK)
           r == [Blank EXCEPT !.op = "register", !.proc = p, !.email = req.email,
                              !.password = req.password, !.role = req.role,
                              !.calls = <<"GetByEmail">> \o sc.calls,
                              !.storeFailed = ~storeOK]
           user == [id |-> nextID, email |-> req.email,
                    passwordHash |-> GenerateFromPassword(req.password, salt),
                    role |-> req.role]
           c == Create(user)
       IN IF ~sc.ok
          THEN /\ last' = [r EXCEPT !.err = StoreError]
               /\ UNCHANGED <<users, nextID>>
          ELSE IF c.err # NoErr
          THEN /\ last' = [r EXCEPT !.err = c.err]
               /\ UNCHANGED <<users, nextID>>
          ELSE /\ last' = [r EXCEPT !.user = {user}, !.id = user.id]
               /\ users' = c.users
               /\ nextID' = nextID + 1
    /\ reg' = [reg EXCEPT ![p] = {}]
    /\ UNCHANGED <<now, cfg, issued>>

\* ---------------------------------------------------------- AuthService.Login
\* credential checks that tell an unknown email from a wrong password
loginCredentialsErr_Distinct(found, password) ==
    IF found = {} THEN "user not found"
    ELSE IF \E u \in found : ~CompareHashAndPassword(u.passwordHash, password)
    THEN ErrInvalidCredentials
    ELSE NoErr

\* the two credential checks (lines 68-76)
loginCredentialsErr(found, password) ==
    IF found = {} THEN ErrInvalidCredentials
    ELSE IF \E u \in found : ~CompareHashAndPassword(u.passwordHash, password)
    THEN ErrInvalidCredentials
    ELSE NoErr

Login(req, storeOK) ==
    LET sc == storeCall("GetByEmail", storeOK)
        r == [Blank EXCEPT !.op = "login", !.email = req.email,
                           !.password = req.password, !.at = now,
                           !.calls = sc.calls, !.storeFailed = ~storeOK]
        found == GetByEmail(req.email)
    IN /\ IF ~sc.ok
          THEN /\ last' = [r EXCEPT !.err = StoreError]
               /\ UNCHANGED <<now, issued>>
          ELSE IF loginCredentialsErr(found, req.password) # NoErr
          THEN /\ last' = [r EXCEPT !.err = loginCredentialsErr(found, req.password)]
               /\ UNCHANGED <<now, issued>>
          ELSE \E d \in Advance :
                    LET user == CHOOSE u \in found : TRUE
                        a == generateToken(user, now)
                        f == generateRefreshToken(user, now + d)
                    IN /\ now + d <= MaxTime
                       /\ Cardinality(issued \cup {a.token, f.token}) <= MaxTokens
                       /\ last' = [r EXCEPT !.access = {a.token}, !.refresh = {f.token},
                                            !.expiresAt = {a.expiresAt}, !.user = {user},
                                            !.id = user.id]
                       /\ issued' = issued \cup {a.token, f.token}
                       /\ now' = now + d
       /\ UNCHANGED <<users, nextID, cfg, reg>>

\* -------------------------------------------------- AuthService.ValidateToken
Validate(tok) ==
    /\ LET v == ValidateToken(tok, now)
       IN last' = [Blank EXCEPT !.op = "validate", !.token = {tok}, !.err = v.err,
                                !.claims = v.claims, !.at = now]
    /\ UNCHANGED <<users, nextID, now, cfg, issued, reg>>

\* --------------------------------------------------- AuthService.RefreshToken
\* a refresh that reports the vanished user as a credentials failure
refreshUserErr_Credentials(found) ==
    IF found = {} THEN ErrInvalidCredentials ELSE NoErr

\* the user the token names is gone (lines 141-143)
refreshUserErr(found) ==
    IF found = {} THEN ErrInvalidToken ELSE NoErr

\* a refresh that carries the presented token's email and role over into
\* the new pair
refreshUser_FromClaims(found, claims) ==
    LET u == CHOOSE x \in found : TRUE
    IN [u EXCEPT !.email = claims.Email, !.role = claims.Role]

\* the record the new pair is generated from: the row GetByID returned
\* (lines 137, 146, 151); the claims only supplied the id
refreshUser(found, claims) ==
    CHOOSE u \in found : TRUE

Refresh(tok, storeOK) ==
    LET r0 == [Blank EXCEPT !.op = "refresh", !.token = {tok}, !.at = now]
        v == ValidateToken(tok, now)
    IN /\ IF v.err # NoErr
          THEN /\ last' = [r0 EXCEPT !.err = v.err]
               /\ UNCHANGED <<now, issued>>
          ELSE LET claims == CHOOSE c \in v.claims : TRUE
                   found == GetByID(claims.UserID)
                   sc == storeCall("GetByID", storeOK)
                   r == [r0 EXCEPT !.calls = sc.calls, !.storeFailed = ~storeOK]
               IN IF ~sc.ok
                  THEN /\ last' = [r EXCEPT !.err = StoreError, !.claims = v.claims]
                       /\ UNCHANGED <<now, issued>>
                  ELSE IF refreshUserErr(found) # NoErr
                  THEN /\ last' = [r EXCEPT !.err = refreshUserErr(found),
                                            !.claims = v.claims]
                       /\ UNCHANGED <<now, issued>>
                  ELSE \E d \in Advance :
                       LET user == refreshUser(found, claims)
                           a == generateToken(user, now)
                           f == generateRefreshToken(user, now + d)
                       IN /\ now + d <= MaxTime
                          /\ Cardinality(issued \cup {a.token, f.token}) <= MaxTokens
                          /\ last' = [r EXCEPT !.access = {a.token},
                                               !.refresh = {f.token},
                                               !.expiresAt = {a.expiresAt},
                                               !.user = {user}, !.id = user.id,
                                               !.claims = v.claims]
                          /\ issued' = issued \cup {a.token, f.token}
                          /\ now' = now + d
       /\ UNCHANGED <<users, nextID, cfg, reg>>

\* ------------------------------------------------------------ UserRepository
\* UPDATE auth.users SET email, role WHERE id RETURNING updated_at
Update(id, email, role, storeOK) ==
    /\ LET r == [Blank EXCEPT !.op = "update", !.id = id, !.email = email, !.role = role]
           found == GetByID(id)
       IN IF ~storeOK
          THEN last' = [r EXCEPT !.err = StoreError] /\ users' = users
          ELSE IF found = {}
          THEN last' = [r EXCEPT !.err = ErrNoRows] /\ users' = users
          ELSE IF role \notin ValidRoles
          THEN last' = [r EXCEPT !.err = CheckViolation] /\ users' = users
          ELSE IF \E u \in users : u.id # id /\ u.email = email
          THEN last' = [r EXCEPT !.err = UniqueViolation] /\ users' = users
          ELSE /\ last' = r
               /\ users' = {IF u.id = id THEN [u EXCEPT !.email = email, !.role = role]
                            ELSE u : u \in users}
    /\ UNCHANGED <<nextID, now, cfg, issued, reg>>

\* UPDATE auth.users SET password_hash WHERE id
UpdatePassword(id, pw, salt, storeOK) ==
    /\ LET r == [Blank EXCEPT !.op = "updatePassword", !.id = id, !.password = pw]
       IN IF ~storeOK
          THEN last' = [r EXCEPT !.err = StoreError] /\ users' = users
          ELSE /\ last' = r
               /\ users' = {IF u.id = id
                            THEN [u EXCEPT !.passwordHash = GenerateFromPassword(pw, salt)]
                            ELSE u : u \in users}
    /\ UNCHANGED <<nextID, now, cfg, issued, reg>>

\* DELETE FROM auth.users WHERE id
Delete(id, storeOK) ==
    /\ LET r == [Blank EXCEPT !.op = "delete", !.id = id]
       IN IF ~storeOK
          THEN last' = [r EXCEPT !.err = StoreError] /\ users' = users
          ELSE last' = r /\ users' = {u \in users : u.id # id}
    /\ UNCHANGED <<nextID, now, cfg, issued, reg>>

\* ------------------------------------------------------------------ the clock
Tick ==
    /\ now < MaxTime
    /\ now' = now + 1
    /\ last' = [Blank EXCEPT !.op = "tick"]
    /\ UNCHANGED <<users, nextID, cfg, issued, reg>>

\* ---------------------------------------------------- the token lifecycle
\* one user registers, logs in and presents tokens while the clock runs, an
\* administrator changes the user's role or deletes the user
TokenRegisterRequests == {[email |-> "a@x.com", password |-> "secret1", role |-> "customer"]}

Next ==
    \/ \E req \in TokenRegisterRequests, ok \in BOOLEAN : RegisterLookup("p1", req, ok)
    \/ \E salt \in Salts, ok \in BOOLEAN : RegisterCreate("p1", salt, ok)
    \/ \E req \in LoginRequests, ok \in BOOLEAN : Login(req, ok)
    \/ \E tok \in Presentable : Validate(tok)
    \/ \E tok \in Presentable, ok \in BOOLEAN : Refresh(tok, ok)
    \/ \E id \in 1..MaxUsers, ok \in BOOLEAN : Update(id, "a@x.com", "admin", ok)
    \/ \E id \in 1..MaxUsers, ok \in BOOLEAN : Delete(id, ok)
    \/ Tick

Spec == Init /\ [][Next]_vars

\* ------------------------------------------------------ the credential store
\* concurrent registrations of arbitrary requests, profile and password
\* updates and deletions, under the default lifetimes
InitStore ==
    /\ Init
    /\ cfg = [token_expiry |-> "", refresh_token_expiry |-> ""]

NextStore ==
    \/ \E p \in Procs, req \in RegisterRequests, ok \in BOOLEAN : RegisterLookup(p, req, ok)
    \/ \E p \in Procs, salt \in Salts, ok \in BOOLEAN : RegisterCreate(p, salt, ok)
    \/ \E id \in 1..MaxUsers, email \in Emails, role \in RoleInputs, ok \in BOOLEAN :
          Update(id, email, role, ok)
    \/ \E id \in 1..MaxUsers, pw \in Passwords, salt \in Salts, ok \in BOOLEAN :
          UpdatePassword(id, pw, salt, ok)
    \/ \E id \in 1..MaxUsers, ok \in BOOLEAN : Delete(id, ok)

SpecStore == InitStore /\ [][NextStore]_vars

\* ------------------------------------------------- the Access and Role Gate
\* An Authorization header is a string, here a sequence of atoms: a space, a
\* word without spaces, or a token.
Sp == [s |-> " ", tok |-> {}]
Word(w) == [s |-> w, tok |-> {}]
TokAtom(t) == [s |-> "", tok |-> {t}]

\* strings.Split(h, " "): the pieces between the spaces, empty ones included
RECURSIVE SplitFrom(_, _, _, _)
SplitFrom(h, i, cur, acc) ==
    IF i > Len(h) THEN Append(acc, cur)
    ELSE IF h[i] = Sp THEN SplitFrom(h, i + 1, <<>>, Append(acc, cur))
    ELSE SplitFrom(h, i + 1, Append(cur, h[i]), acc)

Split(h) == SplitFrom(h, 1, <<>>, <<>>)

\* a string that is no compact token at all
Garbage == [segs |-> 1, alg |-> "", claims |-> [exp |-> 0], sig |-> {}]

\* the token a piece of the header spells
TokenOfPart(part) ==
    IF Len(part) = 1 /\ part[1].tok # {} THEN CHOOSE t \in part[1].tok : TRUE
    ELSE Garbage

\* gin.Context as the gates use it: the keys set, the response, c.Abort()
NewContext ==
    [identity |-> {}, status |-> 0, msg |-> "", aborted |-> FALSE, ran |-> <<>>,
     called |-> 0, verr |-> {}, token |-> {}]

Reject(c, status, msg) == [c EXCEPT !.status = status, !.msg = msg, !.aborted = TRUE]

\* an Access Gate that checks the number of parts but not the scheme
AuthMiddleware_AnyScheme(c, header, t) ==
    IF header = <<>> THEN Reject(c, 401, "Authorization header is required")
    ELSE LET parts == Split(header) IN
         IF Len(parts) # 2
         THEN Reject(c, 401, "Authorization header format must be Bearer {token}")
         ELSE LET tok == TokenOfPart(parts[2])
                  v == ValidateToken(tok, t)
                  d == [c EXCEPT !.called = c.called + 1, !.verr = {v.err}, !.token = {tok}]
              IN IF v.err = Panic THEN Reject(d, 500, "")
                 ELSE IF v.err # NoErr THEN Reject(d, 401, "Invalid or expired token")
                 ELSE [d EXCEPT !.identity = {[user_id |-> cl.UserID, email |-> cl.Email,
                                               role |-> cl.Role] : cl \in v.claims}]

\* an Access Gate that puts the validation error into the response
AuthMiddleware_LeakError(c, header, t) ==
    IF header = <<>> THEN Reject(c, 401, "Authorization header is required")
    ELSE LET parts == Split(header) IN
         IF Len(parts) # 2 \/ parts[1] # <<Word("Bearer")>>
         THEN Reject(c, 401, "Authorization header format must be Bearer {token}")
         ELSE LET tok == TokenOfPart(parts[2])
                  v == ValidateToken(tok, t)
                  d == [c EXCEPT !.called = c.called + 1, !.verr = {v.err}, !.token = {tok}]
              IN IF v.err = Panic THEN Reject(d, 500, "")
                 ELSE IF v.err # NoErr THEN Reject(d, 401, v.err)
                 ELSE [d EXCEPT !.identity = {[user_id |-> cl.UserID, email |-> cl.Email,
                                               role |-> cl.Role] : cl \in v.claims}]

\* an Access Gate that answers 401 for a bad token but forgets c.Abort()
AuthMiddleware_NoAbort(c, header, t) ==
    IF header = <<>> THEN Reject(c, 401, "Authorization header is required")
    ELSE LET parts == Split(header) IN
         IF Len(parts) # 2 \/ parts[1] # <<Word("Bearer")>>
         THEN Reject(c, 401, "Authorization header format must be Bearer {token}")
         ELSE LET tok == TokenOfPart(parts[2])
                  v == ValidateToken(tok, t)
                  d == [c EXCEPT !.called = c.called + 1, !.verr = {v.err}, !.token = {tok}]
              IN IF v.err = Panic THEN Reject(d, 500, "")
                 ELSE IF v.err # NoErr
                 THEN [d EXCEPT !.status = 401, !.msg = "Invalid or expired token"]
                 ELSE [d EXCEPT !.identity = {[user_id |-> cl.UserID, email |-> cl.Email,
                                               role |-> cl.Role] : cl \in v.claims}]

\* AuthMiddleware: a panic of ValidateToken ends in gin.Recovery's 500
AuthMiddleware(c, header, t) ==
    IF header = <<>> THEN Reject(c, 401, "Authorization header is required")
    ELSE LET parts == Split(header) IN
         IF Len(parts) # 2 \/ parts[1] # <<Word("Bearer")>>
         THEN Reject(c, 401, "Authorization header format must be Bearer {token}")
         ELSE LET tok == TokenOfPart(parts[2])
                  v == ValidateToken(tok, t)
                  d == [c EXCEPT !.called = c.called + 1, !.verr = {v.err}, !.token = {tok}]
              IN IF v.err = Panic THEN Reject(d, 500, "")
                 ELSE IF v.err # NoErr THEN Reject(d, 401, "Invalid or expired token")
                 ELSE [d EXCEPT !.identity = {[user_id |-> cl.UserID, email |-> cl.Email,
                                               role |-> cl.Role] : cl \in v.claims}]

\* a Role Gate whose empty allow-set lets every identity through
RoleMiddleware_EmptyAllowsAll(c, roles) ==
    IF c.identity = {} THEN Reject(c, 401, "User not authenticated")
    ELSE IF roles = {} \/ \E i \in c.identity : i.role \in roles THEN c
    ELSE Reject(c, 403, "Permission denied")

\* RoleMiddleware(roles...)
RoleMiddleware(c, roles) ==
    IF c.identity = {} THEN Reject(c, 401, "User not authenticated")
    ELSE IF \E i \in c.identity : \E r \in roles : i.role = r THEN c
    ELSE Reject(c, 403, "Permission denied")

\* the business handler behind the gates
Handler(c) == [c EXCEPT !.status = 200, !.msg = "ok"]

\* gin runs the handlers of a route in order until one aborts
RECURSIVE RunChain(_, _, _, _, _)
RunChain(chain, i, c, header, t) ==
    IF i > Len(chain) \/ c.aborted THEN c
    ELSE LET h == chain[i]
             d == [c EXCEPT !.ran = Append(c.ran, h.kind)]
             e == CASE h.kind = "auth" -> AuthMiddleware(d, header, t)
                    [] h.kind = "role" -> RoleMiddleware(d, h.roles)
                    [] OTHER -> Handler(d)
         IN RunChain(chain, i + 1, e, header, t)

AuthGate == [kind |-> "auth", roles |-> {}]
RoleGate(roles) == [kind |-> "role", roles |-> roles]
Business == [kind |-> "handler", roles |-> {}]

AllowSets == {{}, {"admin"}, {"admin", "customer"}}

\* lifetimes for the gate: the defaults, and tokens that expire within the
\* second (access) or are born expired (refresh)
GateConfigs ==
    {[token_expiry |-> "", refresh_token_expiry |-> ""],
     [token_expiry |-> "0s", refresh_token_expiry |-> "-1s"]}

Routes ==
    {<<AuthGate, RoleGate(R), Business>> : R \in AllowSets}
    \cup {<<RoleGate({"admin"}), Business>>, <<AuthGate, Business>>}

\* the Authorization headers a client sends: none, wrong schemes, too few or
\* too many parts, a doubled space, and Bearer with anything presentable
Headers ==
    {<<>>,
     <<Word("Token"), Sp, Word("abc")>>,
     <<Word("Bearer")>>,
     <<Word("Bearer"), Sp>>,
     <<Word("Bearer"), Sp, Word("a"), Sp, Word("b")>>,
     <<Word("Bearer"), Sp, Word("abc")>>}
    \cup {<<Word("bearer"), Sp, TokAtom(t)>> : t \in issued}
    \cup {<<Word("Bearer"), Sp, Sp, TokAtom(t)>> : t \in issued}
    \cup {<<Word("Bearer"), Sp, TokAtom(t)>> : t \in Presentable}

Request(header, chain) ==
    /\ LET c == RunChain(chain, 1, NewContext, header, now)
       IN last' = [Blank EXCEPT !.op = "request", !.header = header, !.chain = chain,
                                !.status = c.status, !.msg = c.msg, !.ran = c.ran,
                                !.identity = c.identity, !.called = c.called,
                                !.verr = c.verr, !.token = c.token, !.at = now]
    /\ UNCHANGED <<users, nextID, now, cfg, issued, reg>>

\* a customer and an administrator register and log in, and requests with
\* any header arrive at routes behind the gates
GateRegisterRequests ==
    {[email |-> "a@x.com", password |-> "secret1", role |-> "customer"],
     [email |-> "b@x.com", password |-> "secret1", role |-> "admin"]}

NextGate ==
    \/ \E req \in GateRegisterRequests, ok \in BOOLEAN : RegisterLookup("p1", req, ok)
    \/ \E salt \in Salts, ok \in BOOLEAN : RegisterCreate("p1", salt, ok)
    \/ \E req \in LoginRequests, ok \in BOOLEAN : Login(req, ok)
    \/ \E header \in Headers, chain \in Routes : Request(header, chain)

InitGate == Init /\ cfg \in GateConfigs

SpecGate == InitGate /\ [][NextGate]_vars

TypeOK ==
    /\ nextID \in 1..(MaxUsers + 1)
    /\ now \in StartTime..MaxTime
    /\ Cardinality(issued) <= MaxTokens
    /\ \A u \in users : u.id \in 1..MaxUsers /\ u.email \in Emails

\* ---------------------------------------------------------- setupRouter
\* the router of main.go: gin.Default() with Logger and Recovery, which pass
\* every request on, the CORS function, and the route table
Methods == {"GET", "OPTIONS"}
Paths == {"/health", "/admin/dashboard", "/admin/users"}

\* router.Use(func...): sets the CORS headers, answers OPTIONS with 204
CORS(c, method) ==
    LET d == [c EXCEPT !.ran = Append(c.ran, "cors")]
    IN IF method = "OPTIONS" THEN Reject(d, 204, "") ELSE d

\* the handlers registered for a method and path after the global ones;
\* router.Group("/admin") is given no middleware
setupRouter(method, path) ==
    IF method = "GET" /\ path \in {"/health", "/admin/dashboard"}
    THEN <<Business>>
    ELSE <<>>

\* gin answers 404 when no route matches
NoRoute(c) == [c EXCEPT !.status = 404, !.msg = "404 page not found"]

Serve(method, path, header) ==
    /\ LET chain == setupRouter(method, path)
           c0 == CORS(NewContext, method)
           c == IF c0.aborted THEN c0
                ELSE IF chain = <<>> THEN NoRoute(c0)
                ELSE RunChain(chain, 1, c0, header, now)
       IN last' = [Blank EXCEPT !.op = "serve", !.method = method, !.path = path,
                                !.header = header, !.chain = chain,
                                !.status = c.status, !.msg = c.msg, !.ran = c.ran,
                                !.identity = c.identity, !.called = c.called,
                                !.verr = c.verr, !.token = c.token, !.at = now]
    /\ UNCHANGED <<users, nextID, now, cfg, issued, reg>>

NextRouter ==
    \/ \E req \in GateRegisterRequests, ok \in BOOLEAN : RegisterLookup("p1", req, ok)
    \/ \E salt \in Salts, ok \in BOOLEAN : RegisterCreate("p1", salt, ok)
    \/ \E req \in LoginRequests, ok \in BOOLEAN : Login(req, ok)
    \/ \E method \in Methods, path \in Paths, header \in Headers : Serve(method, path, header)

SpecRouter == InitGate /\ [][NextRouter]_vars

\* -------------------------------------------- a token outliving its user
\* one user registers and logs in with an access token that lasts half a
\* second; the account is then edited, re-keyed or deleted, more tokens are
\* issued, and every issued token is presented to validate as time passes
StableConfigs == {[token_expiry |-> "500ms", refresh_token_expiry |-> ""]}

NextStable ==
    \/ \E req \in TokenRegisterRequests : RegisterLookup("p1", req, TRUE)
    \/ \E salt \in Salts : RegisterCreate("p1", salt, TRUE)
    \/ \E req \in {q \in LoginRequests : q.password = "secret1"} : Login(req, TRUE)
    \/ \E tok \in issued : Validate(tok)
    \/ \E tok \in issued : Refresh(tok, TRUE)
    \/ \E id \in 1..MaxUsers, email \in {"a@x.com", "b@x.com"}, role \in {"customer", "admin"} :
            Update(id, email, role, TRUE)
    \/ \E id \in 1..MaxUsers, salt \in Salts : UpdatePassword(id, "abc", salt, TRUE)
    \/ \E id \in 1..MaxUsers : Delete(id, TRUE)
    \/ Tick

InitStable ==
    /\ users = {}
    /\ nextID = 1
    /\ now = StartTime
    /\ cfg \in StableConfigs
    /\ issued = {}
    /\ reg = [p \in Procs |-> {}]
    /\ last = Blank

SpecStable == InitStable /\ [][NextStable]_vars

\* =================================================================== claims
MarkedRefresh(tok) == "is_refresh" \in DOMAIN tok.claims /\ tok.claims.is_refresh = TRUE

SignedByService(tok) ==
    tok.segs = 3 /\ tok.sig = {[alg |-> tok.alg, key |-> JwtSecret, payload |-> tok.claims]}

\* C1: refresh fails for every token that is not marked is_refresh: an access
\* token issued by login or refresh, presented to refresh, yields no new pair.
C1_RefreshRejectsAccessTokens ==
    last.op = "refresh" =>
        \A tok \in last.token :
            (tok \in issued /\ ~MarkedRefresh(tok)) =>
                (last.err # NoErr /\ last.access = {} /\ last.refresh = {})

\* C2: validate rejects every token marked is_refresh=true: a refresh token
\* issued by login or refresh never validates as an access token.
C2_ValidateRejectsRefreshTokens ==
    last.op = "validate" =>
        \A tok \in last.token :
            (tok \in issued /\ MarkedRefresh(tok)) =>
                (last.err # NoErr /\ last.claims = {})

\* C3: a token whose exp lies before the current second fails validate and
\* refresh even when correctly signed, and since the clock never runs
\* backwards it fails at every later time as well (Expired is terminal).
C3_ExpiredIsTerminal ==
    /\ [](last.op \in {"validate", "refresh"} =>
            \A tok \in last.token :
                ("exp" \in DOMAIN tok.claims /\ tok.claims.exp < last.at \div TicksPerSec) =>
                    (last.err # NoErr /\ last.claims = {} /\ last.access = {}
                     /\ last.refresh = {}))
    /\ [][now' >= now]_vars

C3_Witness ==
    /\ last.op = "validate"
    /\ \E tok \in last.token :
          /\ SignedByService(tok)
          /\ tok.claims.exp < last.at \div TicksPerSec
          /\ tok.claims.exp >= StartTime \div TicksPerSec
    /\ last.err # NoErr

\* C4: validate rejects every token whose header names a method outside the
\* HMAC family ("none", RS256, an unregistered name), whatever its payload
\* and signature.
C4_NonHMACRejected ==
    last.op = "validate" =>
        \A tok \in last.token :
            tok.alg \notin {"HS256", "HS384", "HS512"} =>
                (last.err # NoErr /\ last.claims = {})

C4_Witness ==
    /\ last.op = "validate"
    /\ \E tok \in last.token :
          /\ tok.alg = "none" /\ tok.sig = {} /\ tok.segs = 3
          /\ tok.claims.exp >= now \div TicksPerSec
    /\ last.err # NoErr

\* the claim set the service signed, as the typed value of the data model
ClaimSetOf(c) ==
    [UserID |-> CHOOSE i \in 1..MaxUsers : c.user_id = <<"canonical", i>>,
     Email |-> c.email,
     Role |-> c.role,
     IssuedAt |-> c.issued_at,
     ExpiresAt |-> c.exp,
     IsRefresh |-> ("is_refresh" \in DOMAIN c /\ c.is_refresh = TRUE)]

C6_LoginFailuresAlike ==
    (last.op = "login" /\ last.err # StoreError) =>
        LET found == {u \in users : u.email = last.email} IN
        (found = {} \/ \E u \in found : u.passwordHash.digest # <<u.passwordHash.salt, last.password>>)
            => (last.err = ErrInvalidCredentials /\ last.access = {} /\ last.refresh = {}
                /\ last.user = {})

C6_Witness ==
    /\ last.op = "login"
    /\ \E u \in users : /\ u.email = last.email
                        /\ u.passwordHash.digest # <<u.passwordHash.salt, last.password>>
    /\ last.err = ErrInvalidCredentials

\* C7: a successful login returns an access and a refresh token that carry
\* the id, email and role of the stored user with the request's email, the
\* access token not marked as refresh, the refresh token marked
\* is_refresh=true, and ExpiresAt falls in the second of the access token's
\* exp.
C7_LoginTokens ==
    (last.op = "login" /\ last.err = NoErr) =>
        \E u \in users, a \in last.access, f \in last.refresh, e \in last.expiresAt :
            /\ u.email = last.email
            /\ last.user = {u}
            /\ \A t \in {a, f} : /\ t.claims.user_id = <<"canonical", u.id>>
                                 /\ t.claims.email = u.email
                                 /\ t.claims.role = u.role
                                 /\ SignedByService(t)
            /\ ~MarkedRefresh(a)
            /\ MarkedRefresh(f)
            /\ e \div TicksPerSec = a.claims.exp

C7_Witness ==
    /\ last.op = "login"
    /\ last.err = NoErr
    /\ last.access # {}
    /\ last.refresh # {}

\* C8: a register call whose lookup finds a record with the request's email
\* fails with ErrUserAlreadyExists and leaves the users table unchanged; a
\* register of a well-formed request whose email has no record when it is
\* inserted succeeds and persists the record.
C8_DuplicateRegister ==
    [][/\ (/\ last'.op \in {"register", "register.lookup"}
           /\ reg[last'.proc] = {}
           /\ {u \in users : u.email = last'.email} # {}
           /\ last'.err # StoreError)
          => (last'.op = "register" /\ last'.err = ErrUserAlreadyExists /\ users' = users)
       /\ (/\ last'.op = "register"
           /\ reg[last'.proc] # {}
           /\ {u \in users : u.email = last'.email} = {}
           /\ last'.role \in {"admin", "customer", "contributor"}
           /\ last'.err # StoreError)
          => (/\ last'.err = NoErr
              /\ \E u \in users' \ users : u.email = last'.email /\ last'.user = {u})]_vars

C8_Witness ==
    /\ last.op = "register"
    /\ last.err = ErrUserAlreadyExists
    /\ \E u \in users : u.email = last.email

\* C9: in every reachable state of the users table no two records share an
\* email.
C9_EmailUnique ==
    \A u, v \in users : u.email = v.email => u = v

C9_Witness ==
    /\ Cardinality(users) = 2
    /\ last.op \in {"register", "update"}
    /\ last.err = UniqueViolation

\* C10: a register request whose password is shorter than 6 characters or
\* whose role is outside {admin, customer, contributor} is rejected and no
\* user record is persisted for it.
C10_RegisterValidatesInput ==
    (last.op = "register"
     /\ (Len(last.password) < 6 \/ last.role \notin {"admin", "customer", "contributor"}))
        => (last.err # NoErr /\ last.user = {})

\* C11: a refresh whose token validates but whose user id has no record in
\* the users table fails with ErrInvalidToken and returns no tokens.
C11_RefreshOfVanishedUser ==
    (last.op = "refresh" /\ last.err # StoreError) =>
        \A c \in last.claims :
            {u \in users : u.id = c.UserID} = {} =>
                (last.err = ErrInvalidToken /\ last.access = {} /\ last.refresh = {}
                 /\ last.user = {})

C11_Witness ==
    /\ last.op = "refresh"
    /\ \E c \in last.claims : \A u \in users : u.id # c.UserID
    /\ \E tok \in last.token : SignedByService(tok)
    /\ last.err = ErrInvalidToken

\* an Authorization header of exactly two space-separated parts, the first
\* of them the word Bearer
WellFormedBearer(h) ==
    /\ Len(h) >= 2
    /\ h[1] = [s |-> "Bearer", tok |-> {}]
    /\ h[2] = [s |-> " ", tok |-> {}]
    /\ \A i \in 3..Len(h) : h[i] # [s |-> " ", tok |-> {}]

BehindAccessGate == last.op = "request" /\ Len(last.chain) >= 2 /\ last.chain[1].kind = "auth"

\* C12: when the Authorization header is missing or is not exactly two
\* space-separated parts with the first literally Bearer, the Access Gate
\* answers 401, never calls validate and lets nothing downstream run.
C12_MalformedHeaderRejected ==
    (BehindAccessGate /\ ~WellFormedBearer(last.header)) =>
        /\ last.status = 401
        /\ last.called = 0
        /\ last.ran = <<"auth">>
        /\ last.identity = {}

C12_Witness ==
    /\ BehindAccessGate
    /\ Len(last.header) = 3
    /\ last.header[1].s = "bearer"
    /\ \E t \in last.header[3].tok : SignedByService(t) /\ last.at \div TicksPerSec <= t.claims.exp
    /\ last.status = 401
    /\ last.called = 0

\* C13: for a well-formed Bearer header the Access Gate calls validate once
\* and its outcome decides: on success the identity attached is the user id,
\* email and role of the token's claim set and the next handler runs; on
\* failure the answer is 401 with the one message "Invalid or expired token"
\* and nothing downstream runs.
C13_ValidateDecides ==
    (BehindAccessGate /\ WellFormedBearer(last.header)) =>
        /\ last.called = 1
        /\ Cardinality(last.verr) = 1
        /\ last.verr = {NoErr} =>
              /\ \E t \in last.token :
                    /\ last.header = <<[s |-> "Bearer", tok |-> {}], [s |-> " ", tok |-> {}],
                                       [s |-> "", tok |-> {t}]>>
                    /\ last.identity = {[user_id |-> ClaimSetOf(t.claims).UserID,
                                         email |-> t.claims.email,
                                         role |-> t.claims.role]}
              /\ Len(last.ran) >= 2
              /\ last.ran[1] = "auth"
        /\ last.verr # {NoErr} =>
              /\ last.status = 401
              /\ last.msg = "Invalid or expired token"
              /\ last.ran = <<"auth">>
              /\ last.identity = {}

C13_Witness ==
    /\ BehindAccessGate
    /\ WellFormedBearer(last.header)
    /\ last.verr = {NoErr}
    /\ \E i \in last.identity : i.role = "customer"
    /\ Len(last.ran) >= 2

\* C14: a Role Gate with allow-set R answers 401 "User not authenticated"
\* when no identity is attached, 403 "Permission denied" when the attached
\* role is not in R, and lets the handler run exactly when the attached role
\* is in R; an empty R forbids every identity.
C14_RoleGate ==
    last.op = "request" =>
        \A k \in 1..Len(last.chain) :
            (last.chain[k].kind = "role" /\ Len(last.ran) >= k) =>
                LET R == last.chain[k].roles
                    passed == Len(last.ran) > k
                IN /\ last.identity = {} =>
                        (last.status = 401 /\ last.msg = "User not authenticated" /\ ~passed)
                   /\ (last.identity # {} /\ \A i \in last.identity : i.role \notin R) =>
                        (last.status = 403 /\ last.msg = "Permission denied" /\ ~passed)
                   /\ passed <=> (\E i \in last.identity : i.role \in R)
                   /\ passed => last.status = 200

C14_Witness ==
    /\ last.op = "request"
    /\ Len(last.chain) = 3
    /\ last.chain[2] = [kind |-> "role", roles |-> {}]
    /\ last.identity # {}
    /\ last.status = 403

\* C15: on a route chained Access Gate, Role Gate(R), handler, a rejection
\* by either gate stops the chain there, and the handler runs only after
\* the Access Gate validated a token signed by the service and the Role Gate
\* found that token's role in R; a customer's login token at a route gated
\* to {"admin"} gets 403.
C15_GatesShortCircuit ==
    (BehindAccessGate /\ Len(last.chain) = 3 /\ last.chain[2].kind = "role") =>
        LET R == last.chain[2].roles IN
        /\ last.verr # {NoErr} => last.ran = <<"auth">>
        /\ last.ran \in {<<"auth">>, <<"auth", "role">>, <<"auth", "role", "handler">>}
        /\ last.ran = <<"auth", "role">> => last.status \in {401, 403}
        /\ last.ran = <<"auth", "role", "handler">> =>
              /\ last.verr = {NoErr}
              /\ \E t \in last.token :
                    t \in issued /\ SignedByService(t) /\ t.claims.role \in R
        /\ (last.verr = {NoErr} /\ R = {"admin"}
            /\ \E t \in last.token : t.claims.role = "customer") =>
              (last.status = 403 /\ last.ran = <<"auth", "role">>)

C15_Witness ==
    /\ BehindAccessGate
    /\ Len(last.chain) = 3
    /\ last.chain[2] = [kind |-> "role", roles |-> {"admin"}]
    /\ \E t \in last.token : t \in issued /\ ~MarkedRefresh(t) /\ t.claims.role = "customer"
    /\ last.verr = {NoErr}
    /\ last.status = 403

\* C16: every failure of validate (malformed token, bad signature, signing
\* method other than HMAC, missing or mistyped claim, expiry) is returned
\* as the one error ErrInvalidToken, never as another error value and never
\* as a crash.
C16_ValidateFailsWithInvalidToken ==
    (last.op = "validate" /\ last.err # NoErr) => last.err = ErrInvalidToken

\* C17: when the store fails during register, login or refresh, the
\* operation returns that failure after issuing the failing call once,
\* hands out no user and no tokens, and leaves the users table and the set
\* of issued tokens as they were.
C17_StoreFailurePropagates ==
    [][(last'.op \in {"register", "login", "refresh"} /\ last'.storeFailed) =>
            /\ last'.err = StoreError
            /\ last'.calls \in {<<"GetByEmail">>, <<"GetByID">>, <<"GetByEmail", "Create">>}
            /\ last'.user = {} /\ last'.access = {} /\ last'.refresh = {}
            /\ last'.expiresAt = {}
            /\ users' = users /\ issued' = issued /\ nextID' = nextID]_vars

C17_Witness ==
    /\ last.op = "refresh"
    /\ last.storeFailed
    /\ last.err = StoreError
    /\ last.calls = <<"GetByID">>
    /\ \E tok \in last.token : tok \in issued
    /\ users # {}

\* C18: every token handed out by login or refresh, whatever lifetime is
\* configured (unparsable, zero or negative included), carries an expiry
\* strictly after its issued-at.
C18_ExpiryAfterIssuedAt ==
    \A tok \in issued : tok.claims.exp > tok.claims.issued_at

\* C19: a token becomes invalid only by expiry. In every state the service
\* reaches, with the token's user deleted, or its role, email or password
\* changed, after further logins and after refreshes with that token,
\* validate of an issued token succeeds exactly while the clock has not
\* passed its exp and returns the claims it was issued with; and validate
\* itself changes nothing in the store.
C19_OnlyExpiryInvalidates ==
    /\ [](last.op = "validate" =>
            \A tok \in last.token :
                tok \in issued =>
                    /\ last.err = NoErr <=> last.at \div TicksPerSec <= tok.claims.exp
                    /\ last.err = NoErr =>
                          last.claims = {[UserID |-> ClaimSetOf(tok.claims).UserID,
                                          Email |-> tok.claims.email,
                                          Role |-> tok.claims.role]})
    /\ [][last'.op = "validate" =>
            (users' = users /\ issued' = issued /\ nextID' = nextID /\ reg' = reg)]_vars

C19_Witness ==
    /\ last.op = "validate"
    /\ last.err = NoErr
    /\ users = {}
    /\ nextID > 1
    /\ Cardinality(issued) > 2
    /\ \E tok \in last.token : tok \in issued /\ tok.claims.role = "customer"

\* C20: validate rejects a correctly signed token presented in the very
\* second named by its exp (now == exp).
C20_RejectedAtExpiry ==
    last.op = "validate" =>
        \A tok \in last.token :
            (SignedByService(tok) /\ "exp" \in DOMAIN tok.claims
             /\ last.at \div TicksPerSec = tok.claims.exp) =>
                (last.err # NoErr /\ last.claims = {})

\* C21: the pair issued by a successful refresh is bound to the user row as
\* stored at that moment under the presented token's user id: both new
\* tokens and the returned user carry the stored email and role, whatever
\* email and role the presented token carries; after a role change the next
\* refresh yields tokens with the new role.
C21_RefreshBindsToStoredUser ==
    (last.op = "refresh" /\ last.err = NoErr) =>
        \A tok \in last.token :
            \E u \in users :
                /\ tok.claims.user_id = <<"canonical", u.id>>
                /\ last.user = {u}
                /\ last.access # {} /\ last.refresh # {}
                /\ \A n \in last.access \cup last.refresh :
                      /\ n.claims.user_id = <<"canonical", u.id>>
                      /\ n.claims.email = u.email
                      /\ n.claims.role = u.role

C21_Witness ==
    /\ last.op = "refresh"
    /\ last.err = NoErr
    /\ \E tok \in last.token : tok.claims.role = "customer"
    /\ \E n \in last.access : n.claims.role = "admin"
    /\ \E n \in last.refresh : n.claims.role = "admin"
    /\ \E u \in users : u.role = "admin"

\* C22: when two register calls for the same email run concurrently, both
\* lookups preceding both inserts, the call whose insert comes second fails
\* with ErrUserAlreadyExists and with no other error (the first succeeds).
C22_ConcurrentRegisterLoser ==
    (/\ last.op = "register"
     /\ last.calls = <<"GetByEmail", "Create">>
     /\ ~last.storeFailed
     /\ last.role \in {"admin", "customer", "contributor"}
     /\ \E u \in users : u.email = last.email /\ u \notin last.user) =>
        (last.err = ErrUserAlreadyExists /\ last.user = {})

\* C23: the router gates its /admin group: a request to /admin/dashboard
\* reaches the handler only after the Access Gate validated a bearer token
\* and a Role Gate passed it, so a request without an Authorization header
\* never gets the dashboard response.
C23_AdminDashboardGated ==
    (last.op = "serve" /\ last.path = "/admin/dashboard") =>
        /\ (\E i \in 1..Len(last.ran) : last.ran[i] = "handler") =>
              /\ last.verr = {NoErr}
              /\ last.identity # {}
              /\ \E i \in 1..Len(last.ran) : last.ran[i] = "auth"
              /\ \E i \in 1..Len(last.ran) : last.ran[i] = "role"
        /\ last.header = <<>> => last.status # 200

====
